---- MODULE Spec2Model ----
(***************************************************************************)
(* Model of x_remove: the background refresher thread                      *)
(* (XDotComAPIDetailsRefresher.run / refresh_x_dot_com_api_details /       *)
(* update_global_api_details), the process-wide api_details_lookup that    *)
(* the request handlers of app.py read, and find_matching_bracket.         *)
(***************************************************************************)
EXTENDS Integers, Sequences, FiniteSets, TLC

\* ------------------------------------------------------------------ bounds
MaxCycles == 2      \* refresh cycles the scheduler may start
MaxModules == 2     \* modules in one extracted module table
MaxLen == 5         \* length of the text given to find_matching_bracket
MaxTable == 3       \* modules in a table given to update_global_api_details
MaxBody == 4        \* length of the text that follows one module's header
MaxFields == 2      \* top-level fields of a literal given to the decoder

VARIABLES
    pc,                 \* position of the refresher thread
    stop_event,         \* XDotComAPIDetailsRefresher.stop_event flag
    api_details_lookup, \* the process-wide dict APIOperation -> details
    api_details,        \* local of refresh_x_dot_com_api_details: module table
    api_op_lookup_new,  \* local of update_global_api_details
    pub_next,           \* position of dict.update in api_op_lookup_new
    cycle,              \* number of refresh cycles started so far
    failure,            \* stage whose exception ended the thread, or "none"
    snapshots,          \* snapshot files written by save_new_x_api_details
    handler,            \* last request handled by app.py: its outcome
    \* history variables (observers only, never read by an action's guard)
    lookup_snap,        \* for each published entry, the cycle that wrote it
    lookup_at_start,    \* api_details_lookup when the current cycle started
    inflight,           \* refresh cycles entered and not yet left
    startsAfterStop,    \* cycles started while stop_event was already set
    raised,             \* class of the exception that ended the thread
    post_status,        \* r.status_code of this cycle's form POST, 0 before it
    steps,              \* requests and stages begun by the current cycle
    snapshots_at_start, \* snapshots when the current cycle started
    \* find_matching_bracket
    code, start_index, fmb_i, stack, fmb_result,
    \* extract_api_details_from_obfuscated_javascript
    match_k,            \* position of the finditer loop in the matches
    result,             \* the table built so far
    extract_result,     \* how the call ended
    \* js_object_to_python_dict
    js_object_str,      \* the argument
    json_object_str,    \* the text after the key-quoting substitution
    python_dict         \* how the call ended

schedVars == <<pc, stop_event, api_details_lookup, api_details,
               api_op_lookup_new, pub_next,
               cycle, failure, snapshots, handler, lookup_snap,
               lookup_at_start, inflight, startsAfterStop, raised,
               post_status, steps, snapshots_at_start>>
fmbVars == <<code, start_index, fmb_i, stack, fmb_result>>
exVars == <<match_k, result, extract_result>>
decVars == <<js_object_str, json_object_str, python_dict>>
vars == <<schedVars, fmbVars, exVars, decVars>>

\* ------------------------------------------------------------ APIOperation
\* enum members in definition order (the order `for api_op in APIOperation`)
APIOperation == <<"LIST_FOLLOWERS", "REMOVE_FOLLOWER">>

Ops == {APIOperation[k] : k \in 1..Len(APIOperation)}

\* api_op.value
OpValue(op) == IF op = "LIST_FOLLOWERS" THEN "Followers" ELSE "RemoveFollower"

\* ------------------------------------------------------------ module table
\* queryId values the remote bundle may carry
QueryIds == {"abc123", "xyz789"}

\* A decoded module object: one that declares an operation of interest, one
\* that declares some other operation, or one with no operationName key.

OperationObjects ==
    [operationName : {"Followers", "RemoveFollower"}, queryId : QueryIds]

OtherObjects ==
    {[operationName |-> "Other", queryId |-> "other"], [exportsOther |-> 0]}

Objects == OperationObjects \cup OtherObjects

\* dict[int, dict] in iteration (insertion) order
TablesUpTo(n) == UNION {[1..m -> Objects] : m \in 0..n}

\* the tables one refresh cycle may extract
Tables == TablesUpTo(MaxModules)

EmptyLookup == [o \in {} |-> 0]


\* Faulty variant of ResolveOp: the inner loop has no `break`, so a later object
\* with the same operationName overrides an earlier one.
RECURSIVE ResolveOpLast(_, _, _)
ResolveOpLast(table, name, k) ==
    IF k > Len(table) THEN [kind |-> "ValueError"]
    ELSE IF "operationName" \notin DOMAIN table[k] THEN [kind |-> "KeyError"]
    ELSE LET rest == ResolveOpLast(table, name, k + 1) IN
         IF rest.kind = "ok" THEN rest
         ELSE IF table[k].operationName = name
              THEN [kind |-> "ok", details |-> table[k]]
              ELSE rest

\* ------------------------------------------- update_global_api_details
\* The inner `for _, details in api_details.items()` loop with its for/else:
\* the first object whose operationName equals `name`, scanning from index k.
\* details["operationName"] on an object without that key raises KeyError.
RECURSIVE ResolveOp(_, _, _)
ResolveOp(table, name, k) ==
    IF k > Len(table) THEN [kind |-> "ValueError"]
    ELSE IF "operationName" \notin DOMAIN table[k] THEN [kind |-> "KeyError"]
    ELSE IF table[k].operationName = name
         THEN [kind |-> "ok", details |-> table[k]]
         ELSE ResolveOp(table, name, k + 1)

\* Faulty variant of Resolves: the for/else that raises for a missing operation is
\* absent, so the update goes ahead with whatever was found.
ResolvesWithoutElse(table) == TRUE

\* The outer loop runs over every member of APIOperation and raises at the
\* first one that fails, so it completes only when every member resolves.
Resolves(table) ==
    \A op \in Ops : ResolveOp(table, OpValue(op), 1).kind = "ok"

\* The exception update_global_api_details raises: that of the first member
\* of APIOperation, in definition order, whose inner loop does not `break`.
ResolveError(table) ==
    LET failing == SelectSeq(APIOperation, LAMBDA op :
                       ResolveOp(table, OpValue(op), 1).kind # "ok")
    IN  IF failing = <<>> THEN "none"
        ELSE ResolveOp(table, OpValue(failing[1]), 1).kind

\* api_op_lookup_new: one entry per operation whose inner loop hit `break`
ApiOpLookupNew(table) ==
    [op \in {o \in Ops : ResolveOp(table, OpValue(o), 1).kind = "ok"} |->
        ResolveOp(table, OpValue(op), 1).details]

\* the keys of a dict built by the loop over APIOperation, in insertion order
KeysInOrder(d) == SelectSeq(APIOperation, LAMBDA op : op \in DOMAIN d)

\* Faulty variant of PutEntry: the dict is rebuilt from the inserted entry alone.
PutEntryFresh(d, op, v) == [o \in {op} |-> v]

\* Faulty variant of PutEntry: d.setdefault(op, v), an existing key keeps its value.
PutEntryKeepsOld(d, op, v) ==
    [o \in (DOMAIN d) \cup {op} |-> IF o \in DOMAIN d THEN d[o] ELSE v]

\* One insertion of dict.update: d[op] = v, every other key kept.
PutEntry(d, op, v) ==
    [o \in (DOMAIN d) \cup {op} |-> IF o = op THEN v ELSE d[o]]

\* dict.update(new): the entries of `new` inserted in its own order,
\* starting at position k.
RECURSIVE Update(_, _, _)
Update(d, new, k) ==
    IF k > Len(KeysInOrder(new)) THEN d
    ELSE Update(PutEntry(d, KeysInOrder(new)[k], new[KeysInOrder(new)[k]]),
                new, k + 1)

\* --------------------------------------------------------------------- Init
\* No extraction and no decode is in progress.
ExtractIdle ==
    /\ match_k = 0
    /\ result = <<>>
    /\ extract_result = [kind |-> "none"]

DecodeIdle ==
    /\ js_object_str = <<>>
    /\ json_object_str = <<>>
    /\ python_dict = [kind |-> "none"]

Init ==
    /\ pc = "check"
    /\ stop_event = FALSE
    /\ api_details_lookup = EmptyLookup
    /\ api_details = <<>>
    /\ api_op_lookup_new = EmptyLookup
    /\ pub_next = 1
    /\ cycle = 0
    /\ failure = "none"
    /\ snapshots = 0
    /\ handler = [outcome |-> "none", mixed |-> FALSE]
    /\ lookup_snap = EmptyLookup
    /\ lookup_at_start = EmptyLookup
    /\ inflight = 0
    /\ startsAfterStop = 0
    /\ raised = "none"
    /\ post_status = 0
    /\ steps = <<>>
    /\ snapshots_at_start = 0
    /\ ExtractIdle
    /\ DecodeIdle
    /\ code = <<>>
    /\ start_index = 0
    /\ fmb_i = 0
    /\ stack = <<>>
    /\ fmb_result = [kind |-> "none"]

\* ------------------------------------------------------ the refresher thread
\* refresher.stop_event.set(), called by another thread
SetStop ==
    /\ ~stop_event
    /\ stop_event' = TRUE
    /\ UNCHANGED <<pc, api_details_lookup, api_details, api_op_lookup_new,
                   pub_next, cycle, failure, snapshots, handler, lookup_snap,
                   lookup_at_start, inflight, startsAfterStop, raised,
                   post_status, steps, snapshots_at_start, fmbVars, exVars,
                   decVars>>

\* Faulty variant of LoopCheck: the loop condition ignores the stop event.
LoopCheckIgnoresStop ==
    /\ pc = "check"
    /\ pc' = "call"
    /\ UNCHANGED <<stop_event, api_details_lookup, api_details,
                   api_op_lookup_new, pub_next, cycle, failure, snapshots,
                   handler, lookup_snap, lookup_at_start, inflight,
                   startsAfterStop, raised, post_status, steps,
                   snapshots_at_start, fmbVars, exVars, decVars>>

\* `while not self.stop_event.is_set():`
LoopCheck ==
    /\ pc = "check"
    /\ pc' = IF stop_event THEN "exited" ELSE "call"
    /\ UNCHANGED <<stop_event, api_details_lookup, api_details,
                   api_op_lookup_new, pub_next, cycle, failure, snapshots,
                   handler, lookup_snap, lookup_at_start, inflight,
                   startsAfterStop, raised, post_status, steps,
                   snapshots_at_start, fmbVars, exVars, decVars>>

\* Faulty variant of AtCall: a timer starts a cycle whether or not one is running.
AtCallOrRunning ==
    pc \in {"call", "nav1", "nav2", "nav3", "nav4", "nav5", "extract", "save",
            "resolve", "publish", "done"}

\* The thread is at the statement that calls refresh_x_dot_com_api_details.
AtCall == pc = "call"

\* refresh_x_dot_com_api_details(self.user_agent) is entered. The count of
\* cycles is capped; a thread that passed the loop condition before the stop
\* event was set still makes its call.
StartCycle ==
    /\ AtCall
    /\ cycle < MaxCycles \/ (stop_event /\ cycle = MaxCycles)
    /\ pc' = "nav1"
    /\ cycle' = cycle + 1
    /\ inflight' = inflight + 1
    /\ lookup_at_start' = api_details_lookup
    /\ startsAfterStop' = IF stop_event THEN startsAfterStop + 1
                          ELSE startsAfterStop
    /\ post_status' = 0
    /\ steps' = <<>>
    /\ snapshots_at_start' = snapshots
    /\ UNCHANGED <<stop_event, api_details_lookup, api_details,
                   api_op_lookup_new, pub_next, failure, snapshots, handler,
                   lookup_snap, raised, fmbVars, exVars, decVars>>

\* An exception leaves refresh_x_dot_com_api_details and then run(), which has
\* no handler: the thread ends. The locals die with the frames.
Raise(stage) ==
    /\ pc' = "dead"
    /\ failure' = stage
    /\ inflight' = inflight - 1
    /\ api_details' = <<>>
    /\ api_op_lookup_new' = EmptyLookup

\* The request a navigation step sends.
NavStep(n) == IF n = 1 THEN "GET /" ELSE IF n = 2 THEN "GET redirect"
              ELSE IF n = 3 THEN "POST form" ELSE IF n = 4 THEN "GET /?mx=1"
              ELSE "GET main.js"

\* What a GET step raises: raise_for_status, a missing script or link
\* (ValueError), a missing form (IndexError), a link without nonce (KeyError).
NavErrors(n) ==
    IF n = 1 THEN {"HTTPStatusError", "ValueError"}
    ELSE IF n = 2 THEN {"HTTPStatusError", "IndexError"}
    ELSE IF n = 4 THEN {"HTTPStatusError", "ValueError", "KeyError"}
    ELSE {"HTTPStatusError"}

\* What the extraction raises: the bracket scan or the JSON decode.
ExtractErrors == {"IndexError", "ValueError", "JSONDecodeError"}

NavPc(n) == IF n = 1 THEN "nav1" ELSE IF n = 2 THEN "nav2"
            ELSE IF n = 3 THEN "nav3" ELSE IF n = 4 THEN "nav4"
            ELSE IF n = 5 THEN "nav5" ELSE "extract"

\* Faulty variant of NavOk: step 2 hands over to step 4, the form POST is skipped.
NavOkSkipsPost(n) ==
    /\ n \in {1, 2, 4, 5}
    /\ pc = NavPc(n)
    /\ pc' = IF n = 2 THEN NavPc(4) ELSE NavPc(n + 1)
    /\ steps' = Append(steps, NavStep(n))
    /\ UNCHANGED <<stop_event, api_details_lookup, api_details,
                   api_op_lookup_new, pub_next, cycle, failure, snapshots,
                   handler, lookup_snap, lookup_at_start, inflight,
                   startsAfterStop, raised, post_status, snapshots_at_start,
                   fmbVars, exVars, decVars>>

\* Steps 1, 2, 4, 5: a GET whose raise_for_status and element search succeed.
NavOk(n) ==
    /\ n \in {1, 2, 4, 5}
    /\ pc = NavPc(n)
    /\ pc' = NavPc(n + 1)
    /\ steps' = Append(steps, NavStep(n))
    /\ UNCHANGED <<stop_event, api_details_lookup, api_details,
                   api_op_lookup_new, pub_next, cycle, failure, snapshots,
                   handler, lookup_snap, lookup_at_start, inflight,
                   startsAfterStop, raised, post_status, snapshots_at_start,
                   fmbVars, exVars, decVars>>

\* Steps 1, 2, 4, 5: HTTP error status, or the script/form/link is absent.
NavFail(n) ==
    /\ n \in {1, 2, 4, 5}
    /\ pc = NavPc(n)
    /\ Raise(NavPc(n))
    /\ steps' = Append(steps, NavStep(n))
    /\ raised' \in NavErrors(n)
    /\ UNCHANGED <<stop_event, api_details_lookup, pub_next, cycle, snapshots,
                   handler, lookup_snap, lookup_at_start, startsAfterStop,
                   post_status, snapshots_at_start, fmbVars, exVars, decVars>>

\* status codes the form POST may answer with: success, redirects, errors
Statuses == {200, 204, 301, 302, 404, 500}

\* r.raise_for_status() raises HTTPStatusError for 4xx and 5xx and returns for
\* 2xx, after which line 223 raises ValueError. For 1xx and 3xx the installed
\* httpx decides whether raise_for_status raises.
Nav3Errors(status) ==
    IF status \in 200..299 THEN {"ValueError"}
    ELSE IF status \in 400..599 THEN {"HTTPStatusError"}
    ELSE {"HTTPStatusError", "ValueError"}

\* Faulty variant of Nav3: the ValueError after raise_for_status is absent, so a
\* success status returns normally like 302.
Nav3AcceptsSuccess(status) ==
    /\ pc = "nav3"
    /\ IF status \in 200..302
       THEN /\ pc' = "nav4"
            /\ UNCHANGED <<failure, inflight, api_details, api_op_lookup_new>>
       ELSE Raise("nav3")
    /\ steps' = Append(steps, NavStep(3))
    /\ post_status' = status
    /\ raised' \in IF status \in 200..302 THEN {raised} ELSE Nav3Errors(status)
    /\ UNCHANGED <<stop_event, api_details_lookup, pub_next, cycle, snapshots,
                   handler, lookup_snap, lookup_at_start, startsAfterStop,
                   snapshots_at_start, fmbVars, exVars, decVars>>

\* post_x_dot_com_redirect_form: only status 302 returns normally.
Nav3(status) ==
    /\ pc = "nav3"
    /\ IF status = 302
       THEN /\ pc' = "nav4"
            /\ UNCHANGED <<failure, inflight, api_details, api_op_lookup_new>>
       ELSE Raise("nav3")
    /\ steps' = Append(steps, NavStep(3))
    /\ post_status' = status
    /\ raised' \in IF status = 302 THEN {raised} ELSE Nav3Errors(status)
    /\ UNCHANGED <<stop_event, api_details_lookup, pub_next, cycle, snapshots,
                   handler, lookup_snap, lookup_at_start, startsAfterStop,
                   snapshots_at_start, fmbVars, exVars, decVars>>

\* extract_api_details_from_obfuscated_javascript returns a module table
ExtractOk(table) ==
    /\ pc = "extract"
    /\ api_details' = table
    /\ pc' = "save"
    /\ steps' = Append(steps, "extract")
    /\ UNCHANGED <<stop_event, api_details_lookup, api_op_lookup_new,
                   pub_next, cycle, failure, snapshots, handler, lookup_snap,
                   lookup_at_start, inflight, startsAfterStop, raised,
                   post_status, snapshots_at_start, fmbVars, exVars, decVars>>

\* a bracket or JSON decode error inside the extraction
ExtractFail ==
    /\ pc = "extract"
    /\ Raise("extract")
    /\ steps' = Append(steps, "extract")
    /\ raised' \in ExtractErrors
    /\ UNCHANGED <<stop_event, api_details_lookup, pub_next, cycle, snapshots,
                   handler, lookup_snap, lookup_at_start, startsAfterStop,
                   post_status, snapshots_at_start, fmbVars, exVars, decVars>>

\* save_new_x_api_details writes the snapshot file
SaveOk ==
    /\ pc = "save"
    /\ snapshots' = snapshots + 1
    /\ pc' = "resolve"
    /\ steps' = Append(steps, "save")
    /\ UNCHANGED <<stop_event, api_details_lookup, api_details,
                   api_op_lookup_new, pub_next, cycle, failure, handler,
                   lookup_snap, lookup_at_start, inflight, startsAfterStop,
                   raised, post_status, snapshots_at_start, fmbVars, exVars,
                   decVars>>

\* open() or json.dump raises; the call is not guarded
SaveFail ==
    /\ pc = "save"
    /\ Raise("save")
    /\ steps' = Append(steps, "save")
    /\ raised' = "OSError"
    /\ UNCHANGED <<stop_event, api_details_lookup, pub_next, cycle, snapshots,
                   handler, lookup_snap, lookup_at_start, startsAfterStop,
                   post_status, snapshots_at_start, fmbVars, exVars, decVars>>

\* update_global_api_details: the resolution loops complete.
ResolveOk ==
    /\ pc = "resolve"
    /\ Resolves(api_details)
    /\ api_op_lookup_new' = ApiOpLookupNew(api_details)
    /\ pc' = "publish"
    /\ pub_next' = 1
    /\ steps' = Append(steps, "resolve")
    /\ UNCHANGED <<stop_event, api_details_lookup, api_details, cycle,
                   failure, snapshots, handler, lookup_snap, lookup_at_start,
                   inflight, startsAfterStop, raised, post_status,
                   snapshots_at_start, fmbVars, exVars, decVars>>

\* Faulty variant of ResolveFail: each entry is stored into the global dict as soon
\* as it is found, before the missing operation raises.
ResolveFailPartial ==
    /\ pc = "resolve"
    /\ ~Resolves(api_details)
    /\ Raise("resolve")
    /\ LET found == {op \in Ops :
                        ResolveOp(api_details, OpValue(op), 1).kind = "ok"} IN
       /\ api_details_lookup' =
              [op \in (DOMAIN api_details_lookup) \cup found |->
                  IF op \in found
                  THEN ResolveOp(api_details, OpValue(op), 1).details
                  ELSE api_details_lookup[op]]
       /\ lookup_snap' =
              [op \in (DOMAIN lookup_snap) \cup found |->
                  IF op \in found THEN cycle ELSE lookup_snap[op]]
    /\ steps' = Append(steps, "resolve")
    /\ raised' = ResolveError(api_details)
    /\ UNCHANGED <<stop_event, pub_next, cycle, snapshots, handler,
                   lookup_at_start, startsAfterStop, post_status,
                   snapshots_at_start, fmbVars, exVars, decVars>>

\* update_global_api_details raises out of the resolution loops
ResolveFail ==
    /\ pc = "resolve"
    /\ ~Resolves(api_details)
    /\ Raise("resolve")
    /\ steps' = Append(steps, "resolve")
    /\ raised' = ResolveError(api_details)
    /\ UNCHANGED <<stop_event, api_details_lookup, pub_next, cycle, snapshots,
                   handler, lookup_snap, lookup_at_start, startsAfterStop,
                   post_status, snapshots_at_start, fmbVars, exVars, decVars>>

\* api_details_lookup.update(api_op_lookup_new) as one step. This is every
\* publish on an interpreter that holds its global lock across the call, and
\* on any interpreter the publish into the still empty dict, where the merge
\* installs a copy of the new dict's key table with a single store.
PublishAtomic ==
    /\ pc = "publish"
    /\ pub_next = 1
    /\ api_details_lookup' = Update(api_details_lookup, api_op_lookup_new, 1)
    /\ lookup_snap' =
           Update(lookup_snap, [op \in DOMAIN api_op_lookup_new |-> cycle], 1)
    /\ pc' = "done"
    /\ steps' = Append(steps, "publish")
    /\ UNCHANGED <<stop_event, api_details, api_op_lookup_new, pub_next,
                   cycle, failure, snapshots, handler, lookup_at_start,
                   inflight, startsAfterStop, raised, post_status,
                   snapshots_at_start, fmbVars, exVars, decVars>>

\* api_details_lookup.update(api_op_lookup_new) into a dict that already has
\* entries, one insertion of the merge loop at a time: the dict is shared and
\* unguarded, so on an interpreter whose threads run in parallel a handler
\* may read between two insertions.
PublishEntry ==
    /\ pc = "publish"
    /\ api_details_lookup # EmptyLookup
    /\ pub_next <= Len(KeysInOrder(api_op_lookup_new))
    /\ LET op == KeysInOrder(api_op_lookup_new)[pub_next] IN
       /\ api_details_lookup' =
              PutEntry(api_details_lookup, op, api_op_lookup_new[op])
       /\ lookup_snap' = PutEntry(lookup_snap, op, cycle)
    /\ IF pub_next = Len(KeysInOrder(api_op_lookup_new))
       THEN pc' = "done" /\ pub_next' = 1
       ELSE pc' = "publish" /\ pub_next' = pub_next + 1
    /\ steps' = IF pub_next = 1 THEN Append(steps, "publish") ELSE steps
    /\ UNCHANGED <<stop_event, api_details, api_op_lookup_new, cycle, failure,
                   snapshots, handler, lookup_at_start, inflight,
                   startsAfterStop, raised, post_status, snapshots_at_start,
                   fmbVars, exVars, decVars>>

\* refresh_x_dot_com_api_details returns; run() logs and reaches the wait
CycleReturn ==
    /\ pc = "done"
    /\ pc' = "wait"
    /\ inflight' = inflight - 1
    /\ api_op_lookup_new' = EmptyLookup
    /\ api_details' = <<>>
    /\ UNCHANGED <<stop_event, api_details_lookup, pub_next, cycle, failure,
                   snapshots, handler, lookup_snap, lookup_at_start,
                   startsAfterStop, raised, post_status, steps,
                   snapshots_at_start, fmbVars, exVars, decVars>>

\* self.stop_event.wait(interval): the interval elapses
WaitTimeout ==
    /\ pc = "wait"
    /\ ~stop_event
    /\ pc' = "check"
    /\ UNCHANGED <<stop_event, api_details_lookup, api_details,
                   api_op_lookup_new, pub_next, cycle, failure, snapshots,
                   handler, lookup_snap, lookup_at_start, inflight,
                   startsAfterStop, raised, post_status, steps,
                   snapshots_at_start, fmbVars, exVars, decVars>>

\* Faulty variant of WaitStopped: the wait is a plain sleep, which the flag does
\* not end.
WaitStoppedSleeps ==
    /\ pc = "wait"
    /\ stop_event
    /\ UNCHANGED vars

\* self.stop_event.wait(interval): the flag is set, wait returns at once
WaitStopped ==
    /\ pc = "wait"
    /\ stop_event
    /\ pc' = "check"
    /\ UNCHANGED <<stop_event, api_details_lookup, api_details,
                   api_op_lookup_new, pub_next, cycle, failure, snapshots,
                   handler, lookup_snap, lookup_at_start, inflight,
                   startsAfterStop, raised, post_status, steps,
                   snapshots_at_start, fmbVars, exVars, decVars>>

\* --------------------------------------------------------- app.py handlers
\* The published entries do not all come from one refresh cycle.
Mixed == \E a, b \in DOMAIN lookup_snap : lookup_snap[a] # lookup_snap[b]

\* api_details_lookup[op]["queryId"], evaluated before the handler's try
\* block: a missing key raises KeyError out of the handler.
Handle(op) ==
    /\ handler' = [outcome |-> IF op \in DOMAIN api_details_lookup
                               THEN "ok" ELSE "KeyError",
                   mixed |-> Mixed]
    /\ UNCHANGED <<pc, stop_event, api_details_lookup, api_details,
                   api_op_lookup_new, pub_next, cycle, failure, snapshots,
                   lookup_snap, lookup_at_start, inflight, startsAfterStop,
                   raised, post_status, steps, snapshots_at_start, fmbVars,
                   exVars, decVars>>

remove_follower == Handle("REMOVE_FOLLOWER")

list_followers == Handle("LIST_FOLLOWERS")

Next ==
    \/ SetStop
    \/ LoopCheck
    \/ StartCycle
    \/ \E n \in {1, 2, 4, 5} : NavOk(n)
    \/ \E n \in {1, 2, 4, 5} : NavFail(n)
    \/ \E status \in Statuses : Nav3(status)
    \/ \E table \in Tables : ExtractOk(table)
    \/ ExtractFail
    \/ SaveOk
    \/ SaveFail
    \/ ResolveOk
    \/ ResolveFail
    \/ PublishAtomic
    \/ PublishEntry
    \/ CycleReturn
    \/ WaitTimeout
    \/ WaitStopped
    \/ remove_follower
    \/ list_followers

Spec == Init /\ [][Next]_vars

\* ---------------------------------------------------- find_matching_bracket
Chars == {"{", "}", "a"}

Codes == UNION {[1..n -> Chars] : n \in 0..MaxLen}

\* code[i] with Python's 0-based index
At(c, i) == c[i + 1]

InitBracket ==
    /\ pc = "check"
    /\ stop_event = FALSE
    /\ api_details_lookup = EmptyLookup
    /\ api_details = <<>>
    /\ api_op_lookup_new = EmptyLookup
    /\ pub_next = 1
    /\ cycle = 0
    /\ failure = "none"
    /\ snapshots = 0
    /\ handler = [outcome |-> "none", mixed |-> FALSE]
    /\ lookup_snap = EmptyLookup
    /\ lookup_at_start = EmptyLookup
    /\ inflight = 0
    /\ startsAfterStop = 0
    /\ raised = "none"
    /\ post_status = 0
    /\ steps = <<>>
    /\ snapshots_at_start = 0
    /\ ExtractIdle
    /\ DecodeIdle
    /\ code \in Codes
    /\ start_index \in 0..Len(code)
    /\ fmb_i = start_index
    /\ stack = <<>>
    /\ fmb_result = [kind |-> "none"]

\* the loop is still running and range(start_index, len(code)) yields fmb_i
InLoop == fmb_result.kind = "none" /\ fmb_i < Len(code)

\* code[i] == '{': stack.append('{')
FmbOpen ==
    /\ InLoop
    /\ At(code, fmb_i) = "{"
    /\ stack' = Append(stack, "{")
    /\ fmb_i' = fmb_i + 1
    /\ UNCHANGED <<code, start_index, fmb_result, schedVars, exVars, decVars>>

\* code[i] == '}': stack.pop(), which raises IndexError on an empty list;
\* `if not stack: return i`
FmbClose ==
    /\ InLoop
    /\ At(code, fmb_i) = "}"
    /\ IF stack = <<>>
       THEN /\ fmb_result' = [kind |-> "IndexError"]
            /\ UNCHANGED <<stack, fmb_i>>
       ELSE /\ stack' = SubSeq(stack, 1, Len(stack) - 1)
            /\ IF Len(stack) = 1
               THEN fmb_result' = [kind |-> "return", index |-> fmb_i]
                    /\ UNCHANGED fmb_i
               ELSE fmb_i' = fmb_i + 1 /\ UNCHANGED fmb_result
    /\ UNCHANGED <<code, start_index, schedVars, exVars, decVars>>

\* any other character: next iteration
FmbOther ==
    /\ InLoop
    /\ At(code, fmb_i) \notin {"{", "}"}
    /\ fmb_i' = fmb_i + 1
    /\ UNCHANGED <<code, start_index, stack, fmb_result, schedVars, exVars,
                   decVars>>

\* the range is exhausted: raise ValueError("No matching closing bracket found")
FmbEnd ==
    /\ fmb_result.kind = "none"
    /\ fmb_i >= Len(code)
    /\ fmb_result' = [kind |-> "ValueError"]
    /\ UNCHANGED <<code, start_index, fmb_i, stack, schedVars, exVars,
                   decVars>>

NextBracket == FmbOpen \/ FmbClose \/ FmbOther \/ FmbEnd

SpecBracket == InitBracket /\ [][NextBracket]_vars

\* ================================================================== claims

\* C1: a refresh cycle that fails at any stage leaves the published lookup
\* equal, entry for entry, to the lookup as it was when the cycle started.
C1_FailedCycleKeepsLookup ==
    failure # "none" => api_details_lookup = lookup_at_start

\* C1 witness: a second cycle failed at navigation step 3 after a first cycle
\* had published both entries.
C1_Witness ==
    /\ failure = "nav3"
    /\ cycle = 2
    /\ DOMAIN api_details_lookup = Ops

\* C2: a failure in a refresh cycle is caught at the cycle boundary: the
\* scheduler thread is not ended by it and goes back to waiting.
C2_FailureNotFatal == failure # "none" => pc # "dead"

\* C3: a handler that reads the published lookup never reads it while some
\* entries come from one refresh cycle and others from another.
C3_ReaderNeverSeesMix == handler.mixed = FALSE

\* C4: a lookup made by a handler never ends in an unhandled error, in
\* particular not while the published lookup is still empty.
C4_LookupNeverRaises == handler.outcome # "KeyError"

\* C5: a resolution that misses an operation publishes nothing, and in every
\* state the published lookup is empty or has an entry for every member of
\* APIOperation.
C5_EmptyOrComplete ==
    /\ DOMAIN api_details_lookup \in {{}, Ops}
    /\ failure = "resolve" => api_details_lookup = lookup_at_start

\* C5 witness: the first cycle extracted a table that lacks an operation,
\* the resolution failed, and the published lookup is still empty.
C5_Witness ==
    /\ failure = "resolve"
    /\ cycle = 1
    /\ api_details_lookup = EmptyLookup

\* C6: when the extracted table resolves, leaving the snapshot write never
\* ends the cycle: the cycle goes on to the resolution and the publish.
C6_SaveFailureDoesNotFailCycle ==
    [][(pc = "save" /\ Resolves(api_details)) => pc' \in {"save", "resolve"}]_vars

\* C7: at most one refresh cycle is in flight at any time.
C7_OneCycleInFlight == inflight <= 1

\* C7 witness: the second cycle is in flight, the first one having returned.
C7_Witness == inflight = 1 /\ cycle = 2 /\ pc = "resolve"

\* C8 as stated: no refresh cycle starts once the stop event is set.
C8_NoStartAfterStop == startsAfterStop = 0

\* C8 amended: at most one refresh cycle starts after the stop event is set
\* (the one whose loop-condition check had passed before the event was set).
C8_AtMostOneStartAfterStop == startsAfterStop <= 1

\* C8 witness: a cycle started after the stop event was set, ran to its end,
\* and the next loop-condition check ended the thread.
C8_Witness == startsAfterStop = 1 /\ pc = "exited"

\* C9: the set of operations that have an entry in the published lookup
\* never shrinks.
C9_EntriesNeverRemoved ==
    [][DOMAIN api_details_lookup \subseteq DOMAIN api_details_lookup']_vars

\* C9 witness: both entries are still published after a later cycle failed.
C9_Witness ==
    /\ failure = "resolve"
    /\ cycle = 2
    /\ DOMAIN api_details_lookup = Ops

\* Nesting depth after the characters start..j (0-based), counted from depth
\* 1 at the start index.
RECURSIVE DepthAfter(_, _, _)
DepthAfter(c, start, j) ==
    IF j < start THEN 1
    ELSE DepthAfter(c, start, j - 1)
         + (IF At(c, j) = "{" THEN 1 ELSE IF At(c, j) = "}" THEN -1 ELSE 0)

\* indices at which the nesting opened before `start` is back at zero
ClosingIndices(c, start) ==
    {j \in start..(Len(c) - 1) : DepthAfter(c, start, j) = 0}

\* the index of the '}' closing the brace opened just before `start`
ClosingIndex(c, start) ==
    CHOOSE j \in ClosingIndices(c, start) :
        \A k \in ClosingIndices(c, start) : j <= k

\* start lies immediately after an opening brace whose span is well nested
AfterOpenBraceWellNested(c, start) ==
    /\ start >= 1
    /\ At(c, start - 1) = "{"
    /\ ClosingIndices(c, start) # {}

\* C10: started immediately after an opening brace whose span is well
\* nested, find_matching_bracket returns the index of the closing brace.
C10_ReturnsClosingIndex ==
    (fmb_result.kind # "none" /\ AfterOpenBraceWellNested(code, start_index))
        => fmb_result = [kind |-> "return",
                         index |-> ClosingIndex(code, start_index)]

\* C11: when the text ends before the nesting opened before the start index
\* is back at zero, find_matching_bracket fails with ValueError: it returns no
\* index and raises nothing else.
C11_UnclosedRaisesValueError ==
    (/\ fmb_result.kind # "none"
     /\ start_index >= 1
     /\ At(code, start_index - 1) = "{"
     /\ ClosingIndices(code, start_index) = {})
        => fmb_result = [kind |-> "ValueError"]

\* ------------------------------------------------------------------ C14
Range(f) == {f[x] : x \in DOMAIN f}

\* C14: step 3 lets the cycle go on only for status 302. A 2xx answer ends
\* the cycle with the unexpected-success error (ValueError), a 4xx or 5xx
\* answer with the HTTP error, and after any status other than 302 the step 4
\* request is never sent.
C14_OnlyStatus302Continues ==
    /\ post_status \in 200..299 => (failure = "nav3" /\ raised = "ValueError")
    /\ post_status \in 400..599 =>
           (failure = "nav3" /\ raised = "HTTPStatusError")
    /\ post_status \notin {0, 302} =>
           (pc = "dead" /\ "GET /?mx=1" \notin Range(steps))

C14_Witness == post_status = 204 /\ failure = "nav3" /\ cycle = 2

\* ------------------------------------------------------------------ C15
\* C15: a snapshot file is written only by a successful cycle: one in a cycle
\* that publishes, none in a cycle that failed at any stage, resolution
\* included.
C15_SnapshotOnlyBySuccessfulCycle ==
    /\ pc = "done" => snapshots = snapshots_at_start + 1
    /\ failure # "none" => snapshots = snapshots_at_start

\* ------------------------------------------------------------------ C17
\* the order the stages of one cycle are claimed to run in
CycleOrder ==
    <<"GET /", "GET redirect", "POST form", "GET /?mx=1", "GET main.js",
      "extract", "save", "resolve", "publish">>

IsPrefix(s, t) == Len(s) <= Len(t) /\ s = SubSeq(t, 1, Len(s))

\* the entry of `steps` that belongs to the stage named by `failure`
FailedStep ==
    IF failure = "nav1" THEN "GET /"
    ELSE IF failure = "nav2" THEN "GET redirect"
    ELSE IF failure = "nav3" THEN "POST form"
    ELSE IF failure = "nav4" THEN "GET /?mx=1"
    ELSE IF failure = "nav5" THEN "GET main.js"
    ELSE failure

\* C17: within one cycle the requests 1 to 5 are sent in that order, each one
\* only after every earlier one succeeded, and the step that fails is the
\* last thing the cycle does: no request, extraction, snapshot write or
\* publish follows it.
C17_StepsInOrder ==
    /\ IsPrefix(steps, CycleOrder)
    /\ failure # "none" =>
           (steps # <<>> /\ steps[Len(steps)] = FailedStep /\ pc = "dead")

C17_Witness == failure = "nav4" /\ Len(steps) = 4

\* ------------------------------------------------------------------ C20
\* C20: when a cycle has published, the lookup is exactly the table resolved
\* in this cycle: its keys are the operation set, each entry is an object of
\* this cycle's module table with the operation's name, and every entry was
\* written by this cycle.
C20_PublishedIsThisCycle ==
    pc = "done" =>
        /\ api_details_lookup = api_op_lookup_new
        /\ DOMAIN api_details_lookup = Ops
        /\ \A op \in Ops :
               /\ lookup_snap[op] = cycle
               /\ api_details_lookup[op].operationName = OpValue(op)
               /\ \E k \in 1..Len(api_details) :
                      api_details[k] = api_details_lookup[op]

C20_Witness ==
    /\ pc = "done"
    /\ cycle = 2
    /\ DOMAIN lookup_at_start = Ops
    /\ \A op \in Ops : lookup_at_start[op] # api_details_lookup[op]

\* ------------------------------------------- update_global_api_details alone
\* The first cycle has saved its snapshot and calls update_global_api_details
\* with a module table of up to MaxTable objects.
InitResolve ==
    /\ pc = "resolve"
    /\ stop_event = FALSE
    /\ api_details_lookup = EmptyLookup
    /\ api_details \in TablesUpTo(MaxTable)
    /\ api_op_lookup_new = EmptyLookup
    /\ pub_next = 1
    /\ cycle = 1
    /\ failure = "none"
    /\ snapshots = 1
    /\ handler = [outcome |-> "none", mixed |-> FALSE]
    /\ lookup_snap = EmptyLookup
    /\ lookup_at_start = EmptyLookup
    /\ inflight = 1
    /\ startsAfterStop = 0
    /\ raised = "none"
    /\ post_status = 302
    /\ steps = <<NavStep(1), NavStep(2), NavStep(3), NavStep(4), NavStep(5),
                 "extract", "save">>
    /\ snapshots_at_start = 0
    /\ ExtractIdle
    /\ DecodeIdle
    /\ code = <<>>
    /\ start_index = 0
    /\ fmb_i = 0
    /\ stack = <<>>
    /\ fmb_result = [kind |-> "none"]

NextResolve ==
    \/ ResolveOk
    \/ ResolveFail
    \/ PublishAtomic
    \/ CycleReturn

SpecResolve == InitResolve /\ [][NextResolve]_vars

\* ------------------------------------------------------------------ C18
\* the object declares the operation name
HasName(obj, name) ==
    "operationName" \in DOMAIN obj /\ obj.operationName = name

\* position of the first object of the table that declares the name
FirstMatch(table, name) ==
    CHOOSE k \in 1..Len(table) :
        /\ HasName(table[k], name)
        /\ \A j \in 1..(k - 1) : ~HasName(table[j], name)

\* C18: when resolution has completed, each operation maps to the first
\* object, in table iteration order, that declares the operation's name;
\* a later object with the same name does not override it.
C18_FirstMatchWins ==
    pc \in {"publish", "done"} =>
        \A op \in Ops :
            api_op_lookup_new[op] =
                api_details[FirstMatch(api_details, OpValue(op))]

C18_Witness ==
    /\ pc = "publish"
    /\ \E j, k \in 1..Len(api_details) :
           /\ j < k
           /\ HasName(api_details[j], "Followers")
           /\ HasName(api_details[k], "Followers")
           /\ api_details[j] # api_details[k]

\* ------------------------------------------------------------------ C19
\* every operation of interest has an object that declares its name
EveryOpHasMatch(table) ==
    \A op \in Ops : \E k \in 1..Len(table) : HasName(table[k], OpValue(op))

\* C19: for a table in which every operation of interest has a matching
\* object, resolution succeeds whatever else the table holds, objects
\* without an operationName field ahead of the match included.
C19_ResolvesWhenEveryOpHasMatch ==
    [][(pc = "resolve" /\ EveryOpHasMatch(api_details))
           => pc' \in {"resolve", "publish"}]_vars

\* -------------------------- extract_api_details_from_obfuscated_javascript
\* The refresher thread has not been started.
ThreadNotStarted ==
    /\ pc = "check"
    /\ stop_event = FALSE
    /\ api_details_lookup = EmptyLookup
    /\ api_details = <<>>
    /\ api_op_lookup_new = EmptyLookup
    /\ pub_next = 1
    /\ cycle = 0
    /\ failure = "none"
    /\ snapshots = 0
    /\ handler = [outcome |-> "none", mixed |-> FALSE]
    /\ lookup_snap = EmptyLookup
    /\ lookup_at_start = EmptyLookup
    /\ inflight = 0
    /\ startsAfterStop = 0
    /\ raised = "none"
    /\ post_status = 0
    /\ steps = <<>>
    /\ snapshots_at_start = 0

\* The bundle text is a sequence of tokens. A module header, the text the
\* pattern of line 125 matches, is four tokens: `<id>:e=>`, `{`, `e.exports=`
\* and the `{` of group 2. The text after a header is made of braces, "a" (a
\* field with a literal value, `a: 1,`) and "!" (text that is not JSON, `!0`).
ModuleIds == <<123, 456>>

IdToken(k) == IF k = 1 THEN "123:e=>" ELSE "456:e=>"

\* int(match.group(1))
MatchId(tok) == IF tok = "123:e=>" THEN ModuleIds[1] ELSE ModuleIds[2]

Header(k) == <<IdToken(k), "{", "e.exports=", "{">>

BodyChars == Chars \cup {"!"}

Bodies == UNION {[1..n -> BodyChars] : n \in 0..MaxBody}

\* bundles of no, one or two modules
JsCodes ==
    {<<>>}
    \cup {Header(1) \o b : b \in Bodies}
    \cup {Header(1) \o b1 \o Header(2) \o b2 : b1, b2 \in Bodies}

\* re.finditer(pattern, js_code): the 1-based positions where a header starts
MatchStarts(c) ==
    {p \in 1..(Len(c) - 3) :
        /\ c[p] \in {IdToken(1), IdToken(2)}
        /\ c[p + 1] = "{"
        /\ c[p + 2] = "e.exports="
        /\ c[p + 3] = "{"}

\* the k-th match in text order
NthMatch(c, k) ==
    CHOOSE p \in MatchStarts(c) :
        Cardinality({q \in MatchStarts(c) : q < p}) = k - 1

\* match.end(2) as a 0-based index: the token after the header
MatchEnd(p) == p + 3

\* json.loads of the key-quoted text, at the level of tokens: the text is one
\* object when its braces balance and it holds nothing but braces and fields.
DecodesAsObject(js) ==
    /\ Len(js) >= 2
    /\ \A i \in 1..Len(js) : js[i] \in Chars
    /\ js[1] = "{"
    /\ LET depth(i) ==
               Cardinality({j \in 1..i : js[j] = "{"})
               - Cardinality({j \in 1..i : js[j] = "}"})
       IN  /\ depth(Len(js)) = 0
           /\ \A i \in 1..(Len(js) - 1) : depth(i) > 0

\* js_object_to_python_dict(js_object_str): the decoded object keeps the
\* structure of the text, or JSONDecodeError is raised
DecodeLiteral(js) ==
    IF DecodesAsObject(js) THEN [kind |-> "ok", value |-> js]
    ELSE [kind |-> "JSONDecodeError"]

InitExtract ==
    /\ ThreadNotStarted
    /\ DecodeIdle
    /\ code \in JsCodes
    /\ match_k = 0
    /\ result = <<>>
    /\ extract_result = [kind |-> "none"]
    /\ start_index = 0
    /\ fmb_i = 0
    /\ stack = <<>>
    /\ fmb_result = [kind |-> "idle"]

\* the for loop takes the next match and calls find_matching_bracket
ExNextMatch ==
    /\ extract_result.kind = "none"
    /\ fmb_result.kind = "idle"
    /\ match_k < Cardinality(MatchStarts(code))
    /\ match_k' = match_k + 1
    /\ start_index' = MatchEnd(NthMatch(code, match_k + 1))
    /\ fmb_i' = MatchEnd(NthMatch(code, match_k + 1))
    /\ stack' = <<>>
    /\ fmb_result' = [kind |-> "none"]
    /\ UNCHANGED <<code, result, extract_result, schedVars, decVars>>

\* find_matching_bracket returned end_index: the slice is wrapped in braces,
\* decoded and stored under the module id; a decode error leaves the function
ExDecode ==
    /\ extract_result.kind = "none"
    /\ fmb_result.kind = "return"
    /\ LET js_object == <<"{">>
                        \o SubSeq(code, start_index + 1, fmb_result.index + 1)
                        \o <<"}">>
           decoded == DecodeLiteral(js_object)
           id_ == MatchId(code[NthMatch(code, match_k)])
       IN  IF decoded.kind = "ok"
           THEN /\ result' = PutEntry(result, id_, decoded.value)
                /\ fmb_result' = [kind |-> "idle"]
                /\ UNCHANGED extract_result
           ELSE /\ extract_result' = [kind |-> decoded.kind]
                /\ UNCHANGED <<result, fmb_result>>
    /\ UNCHANGED <<code, start_index, fmb_i, stack, match_k, schedVars,
                   decVars>>

\* find_matching_bracket raised: the exception leaves the extraction
ExRaise ==
    /\ extract_result.kind = "none"
    /\ fmb_result.kind \in {"IndexError", "ValueError"}
    /\ extract_result' = [kind |-> fmb_result.kind]
    /\ UNCHANGED <<code, start_index, fmb_i, stack, fmb_result, match_k,
                   result, schedVars, decVars>>

\* the matches are exhausted: return result
ExReturn ==
    /\ extract_result.kind = "none"
    /\ fmb_result.kind = "idle"
    /\ match_k = Cardinality(MatchStarts(code))
    /\ extract_result' = [kind |-> "return", table |-> result]
    /\ UNCHANGED <<code, start_index, fmb_i, stack, fmb_result, match_k,
                   result, schedVars, decVars>>

NextExtract ==
    \/ ExNextMatch
    \/ FmbOpen
    \/ FmbClose
    \/ FmbOther
    \/ FmbEnd
    \/ ExDecode
    \/ ExRaise
    \/ ExReturn

SpecExtract == InitExtract /\ [][NextExtract]_vars

\* ------------------------------------------------------------------ C12
\* 0-based index at which the text of the module matched at p ends: the next
\* header, or the end of the bundle
ModuleEnd(c, p) ==
    LET later == {q \in MatchStarts(c) : q > p} IN
    IF later = {} THEN Len(c)
    ELSE (CHOOSE q \in later : \A r \in later : q <= r) - 1

\* the object literal of the module matched at p is closed inside the module
LiteralClosed(c, p) ==
    \E j \in ClosingIndices(c, MatchEnd(p)) : j < ModuleEnd(c, p)

\* the complete literal: the group-2 brace up to the brace that closes it
CompleteLiteral(c, p) ==
    SubSeq(c, p + 3, ClosingIndex(c, MatchEnd(p)) + 1)

\* the module matched at p is well formed: its literal is closed and decodes
WellFormedModule(c, p) ==
    LiteralClosed(c, p) /\ DecodesAsObject(CompleteLiteral(c, p))

\* the table the claim expects: every module id with its complete literal
ExpectedTable(c) ==
    [id \in {MatchId(c[p]) : p \in MatchStarts(c)} |->
        LET p == CHOOSE q \in MatchStarts(c) : MatchId(c[q]) = id
        IN  CompleteLiteral(c, p)]

\* C12: for a bundle of well-formed modules with distinct ids the extraction
\* returns a table whose keys are exactly those ids and whose value for each
\* id is the decode of the module's complete object literal, every top-level
\* field included.
C12_ExtractsCompleteLiterals ==
    (/\ extract_result.kind # "none"
     /\ \A p \in MatchStarts(code) : WellFormedModule(code, p))
        => extract_result = [kind |-> "return", table |-> ExpectedTable(code)]

\* ------------------------------------------------------------------ C13
\* C13: when one matched module has a malformed literal (unbalanced braces,
\* or text that does not decode) the whole extraction fails: no table is
\* returned, not even a partial one.
C13_MalformedLiteralFailsExtraction ==
    (/\ extract_result.kind # "none"
     /\ \E p \in MatchStarts(code) : ~WellFormedModule(code, p))
        => extract_result.kind
               \in {"IndexError", "ValueError", "JSONDecodeError"}

\* ------------------------------------------------ js_object_to_python_dict
\* The object-literal text is a sequence of tokens: braces, comma, colon, the
\* double quote, and runs of word characters (\w+): the identifiers a and b
\* and the number 1.
Quote == "\""

Words == {"a", "b", "1"}

Keys == {"a", "b"}

\* what stands between the quotes of a string value: nothing, a word, or an
\* identifier followed by a colon and more text
StringContents == {<<>>, <<"a">>, <<"a", ":", "b">>}

\* the texts of the literal values: a number or a string
LeafTexts == {<<"1">>} \cup {<<Quote>> \o c \o <<Quote>> : c \in StringContents}

\* a field with an unquoted identifier key
FieldText(k, v) == <<k, ":">> \o v

\* the fields joined by commas
RECURSIVE JoinFields(_, _)
JoinFields(fs, i) ==
    IF i > Len(fs) THEN <<>>
    ELSE IF i = Len(fs) THEN fs[i]
    ELSE fs[i] \o <<",">> \o JoinFields(fs, i + 1)

ObjectTexts(fieldTexts, n) ==
    {<<"{">> \o JoinFields(fs, 1) \o <<"}">> :
        fs \in UNION {[1..m -> fieldTexts] : m \in 0..n}}

\* a value is a literal or a nested object of at most one field
ValueTexts ==
    LeafTexts
    \cup ObjectTexts({FieldText(k, v) : k \in Keys, v \in LeafTexts}, 1)

\* the arguments: object literals of up to MaxFields fields
JsObjectStrs ==
    ObjectTexts({FieldText(k, v) : k \in Keys, v \in ValueTexts}, MaxFields)

\* re.sub(r'(\w+):', r'"\1":', js_object_str): every run of word characters
\* that a colon follows is put in quotes, wherever it stands in the text
RECURSIVE QuoteKeys(_, _)
QuoteKeys(t, i) ==
    IF i > Len(t) THEN <<>>
    ELSE IF t[i] \in Words /\ i < Len(t) /\ t[i + 1] = ":"
         THEN <<Quote, t[i], Quote, ":">> \o QuoteKeys(t, i + 2)
         ELSE <<t[i]>> \o QuoteKeys(t, i + 1)

\* json.loads, a recursive-descent parser over the tokens. Each Parse operator
\* reads one construct at position i and answers [ok, val, pos], pos being the
\* position after the construct.
ParseFail == [ok |-> FALSE]

\* a string: from a quote to the next quote
ParseString(t, i) ==
    IF i > Len(t) \/ t[i] # Quote THEN ParseFail
    ELSE LET closing == {j \in (i + 1)..Len(t) : t[j] = Quote} IN
         IF closing = {} THEN ParseFail
         ELSE LET j == CHOOSE x \in closing : \A y \in closing : x <= y
              IN  [ok |-> TRUE, val |-> [str |-> SubSeq(t, i + 1, j - 1)],
                   pos |-> j + 1]

RECURSIVE ParseValue(_, _)
RECURSIVE ParseMembers(_, _, _)

\* the members of an object after its opening brace or after a comma:
\* string, colon, value, then a comma or the closing brace
ParseMembers(t, i, acc) ==
    LET key == ParseString(t, i) IN
    IF ~key.ok THEN ParseFail
    ELSE IF key.pos > Len(t) \/ t[key.pos] # ":" THEN ParseFail
    ELSE LET v == ParseValue(t, key.pos + 1) IN
         IF ~v.ok THEN ParseFail
         ELSE LET members == Append(acc, [k |-> key.val.str, v |-> v.val]) IN
              IF v.pos > Len(t) THEN ParseFail
              ELSE IF t[v.pos] = "}"
                   THEN [ok |-> TRUE, val |-> [obj |-> members],
                         pos |-> v.pos + 1]
              ELSE IF t[v.pos] = ","
                   THEN ParseMembers(t, v.pos + 1, members)
              ELSE ParseFail

ParseValue(t, i) ==
    IF i > Len(t) THEN ParseFail
    ELSE IF t[i] = Quote THEN ParseString(t, i)
    ELSE IF t[i] = "1" THEN [ok |-> TRUE, val |-> [num |-> 1], pos |-> i + 1]
    ELSE IF t[i] = "{"
         THEN IF i < Len(t) /\ t[i + 1] = "}"
              THEN [ok |-> TRUE, val |-> [obj |-> <<>>], pos |-> i + 2]
              ELSE ParseMembers(t, i + 1, <<>>)
    ELSE ParseFail

\* json.loads(text): one value and nothing after it, or JSONDecodeError
JsonLoads(t) ==
    LET r == ParseValue(t, 1) IN
    IF r.ok /\ r.pos = Len(t) + 1 THEN [kind |-> "return", value |-> r.val]
    ELSE [kind |-> "JSONDecodeError"]

InitDecode ==
    /\ ThreadNotStarted
    /\ ExtractIdle
    /\ code = <<>>
    /\ start_index = 0
    /\ fmb_i = 0
    /\ stack = <<>>
    /\ fmb_result = [kind |-> "none"]
    /\ js_object_str \in JsObjectStrs
    /\ json_object_str = <<>>
    /\ python_dict = [kind |-> "none"]

\* json_object_str = re.sub(...)
DecSub ==
    /\ python_dict.kind = "none"
    /\ json_object_str = <<>>
    /\ json_object_str' = QuoteKeys(js_object_str, 1)
    /\ UNCHANGED <<js_object_str, python_dict, schedVars, fmbVars, exVars>>

\* python_dict = json.loads(json_object_str); a JSONDecodeError is re-raised
DecLoads ==
    /\ python_dict.kind = "none"
    /\ json_object_str # <<>>
    /\ python_dict' = JsonLoads(json_object_str)
    /\ UNCHANGED <<js_object_str, json_object_str, schedVars, fmbVars,
                   exVars>>

NextDecode == DecSub \/ DecLoads

SpecDecode == InitDecode /\ [][NextDecode]_vars

\* ------------------------------------------------------------------ C16
\* position i of the text lies inside a string: an odd number of quotes
\* stands before it
InsideString(t, i) == Cardinality({j \in 1..(i - 1) : t[j] = Quote}) % 2 = 1

\* the text with only its keys quoted: a word that a colon follows is put in
\* quotes when it stands outside every string
RECURSIVE QuoteOnlyKeys(_, _)
QuoteOnlyKeys(t, i) ==
    IF i > Len(t) THEN <<>>
    ELSE IF /\ t[i] \in Words
            /\ i < Len(t)
            /\ t[i + 1] = ":"
            /\ ~InsideString(t, i)
         THEN <<Quote, t[i], Quote, ":">> \o QuoteOnlyKeys(t, i + 2)
         ELSE <<t[i]>> \o QuoteOnlyKeys(t, i + 1)

\* C16: for an object literal with unquoted identifier keys and literal
\* values, js_object_to_python_dict returns what a JSON parser returns on the
\* text with only its keys quoted; string values come back unchanged, string
\* values that hold an identifier followed by a colon included.
C16_DecodesLikeReference ==
    python_dict.kind # "none"
        => python_dict = JsonLoads(QuoteOnlyKeys(js_object_str, 1))

\* ---------------------------------------------------- the thread under fairness
\* a step of the refresher thread
ThreadStep ==
    \/ LoopCheck
    \/ StartCycle
    \/ \E n \in {1, 2, 4, 5} : NavOk(n)
    \/ \E n \in {1, 2, 4, 5} : NavFail(n)
    \/ \E status \in Statuses : Nav3(status)
    \/ \E table \in Tables : ExtractOk(table)
    \/ ExtractFail
    \/ SaveOk
    \/ SaveFail
    \/ ResolveOk
    \/ ResolveFail
    \/ PublishAtomic
    \/ PublishEntry
    \/ CycleReturn
    \/ WaitTimeout
    \/ WaitStopped

\* The interpreter keeps scheduling a runnable thread, every request of the
\* httpx client is answered or times out, and Event.wait returns when the
\* interval has elapsed or the flag is set: the thread always takes its next
\* step.
SpecLive == Init /\ [][Next]_vars /\ WF_vars(ThreadStep)

\* ------------------------------------------------------------------ C21
\* run() has returned, or an exception has ended it
Terminated == pc \in {"exited", "dead"}

\* a refresh cycle is in flight
InFlight ==
    pc \in {"nav1", "nav2", "nav3", "nav4", "nav5", "extract", "save",
            "resolve", "publish", "done"}

\* C21: once the stop event is set the thread eventually terminates. A thread
\* in the interval wait can leave it at once and exits without a further
\* cycle; a cycle in flight is not aborted, it leaves only at its natural end
\* (after its publish) or by its own failure, and no cycle is started after
\* it.
C21_StopTerminates ==
    /\ stop_event ~> Terminated
    /\ (stop_event /\ pc = "wait") ~> (pc = "exited")
    /\ [](stop_event /\ pc = "wait" => ENABLED <<WaitStopped>>_vars)
    /\ [][(stop_event /\ (pc = "wait" \/ InFlight)) => cycle' = cycle]_vars
    /\ [][(InFlight /\ ~InFlight')
              => ((pc = "done" /\ pc' = "wait") \/ pc' = "dead")]_vars

\* C21 witness: the stop event was set while the second cycle was in flight;
\* the cycle published and the thread exited
C21_Witness ==
    /\ pc = "exited"
    /\ stop_event
    /\ cycle = 2
    /\ startsAfterStop = 0
    /\ \A op \in Ops : lookup_snap[op] = 2

====
